---- MODULE Spec2Model ----
(***************************************************************************)
(* Model of the Telegram channel message-action adapter                   *)
(* (src/channels/plugins/actions/telegram.ts): listActions,                *)
(* supportsButtons and handleAction.  The adapter keeps no state of its    *)
(* own; the state of the model is the invocation in progress: its entry    *)
(* point, its arguments, the calls it made to the provider handler and     *)
(* its outcome.                                                            *)
(***************************************************************************)
EXTENDS Integers, Sequences, FiniteSets

VARIABLES op, cfg, action, params, accountId, pc, forwarded, handlerOutcome, outcome

vars == <<op, cfg, action, params, accountId, pc, forwarded, handlerOutcome, outcome>>

(***************************************************************************)
(* Bounds of the model.                                                    *)
(***************************************************************************)
MaxAccounts == 2

MaxOptions == 3

(***************************************************************************)
(* Untyped parameter values.  A string is a sequence of one-character      *)
(* strings, so that trimming is computed; a number is held in halves, so   *)
(* that a fractional value (2.5 is h = 5) can be told from an integer.     *)
(***************************************************************************)
Absent == [t |-> "absent"]

Str(s) == [t |-> "str", s |-> s]

Num(h) == [t |-> "num", h |-> h]

Bool(b) == [t |-> "bool", b |-> b]

Arr(a) == [t |-> "arr", a |-> a]

Err(field) == [t |-> "err", field |-> field]

providerId == "telegram"

DefaultMaxSelections == 10

IsSpace(c) == c = " "

RECURSIVE TrimStart(_)
TrimStart(s) ==
    IF s # <<>> /\ IsSpace(Head(s)) THEN TrimStart(Tail(s)) ELSE s

RECURSIVE TrimEnd(_)
TrimEnd(s) ==
    IF s # <<>> /\ IsSpace(s[Len(s)]) THEN TrimEnd(SubSeq(s, 1, Len(s) - 1)) ELSE s

Trim(s) == TrimEnd(TrimStart(s))

Digits == <<"0", "1", "2", "3", "4", "5", "6", "7", "8", "9">>

IsDigit(c) == \E i \in 1..Len(Digits) : Digits[i] = c

DigitValue(c) == (CHOOSE i \in 1..Len(Digits) : Digits[i] = c) - 1

RECURSIVE NatToString(_)
NatToString(n) ==
    IF n < Len(Digits) THEN <<Digits[n + 1]>>
    ELSE NatToString(n \div Len(Digits)) \o <<Digits[(n % Len(Digits)) + 1]>>

RECURSIVE ParseNat(_)
ParseNat(s) ==
    IF s = <<>> THEN 0
    ELSE ParseNat(SubSeq(s, 1, Len(s) - 1)) * Len(Digits) + DigitValue(s[Len(s)])

\* String(x) of JavaScript for a string or a number value.
String(v) ==
    IF v.t = "str" THEN v
    ELSE LET a == IF v.h < 0 THEN 0 - v.h ELSE v.h
             sign == IF v.h < 0 THEN <<"-">> ELSE <<>>
             frac == IF a % 2 = 1 THEN <<".", "5">> ELSE <<>>
         IN  Str(sign \o NatToString(a \div 2) \o frac)

\* JavaScript truthiness of a value a string reader returned.
Truthy(v) == v.t = "str" /\ v.s # <<>>

\* a ?? b: b is evaluated only when a is undefined; a thrown error propagates.
Coalesce(a, b) == IF a = Absent THEN b ELSE a

\* The first error thrown by the reads, in evaluation order, else the result.
Try(reads, result) ==
    IF \E i \in 1..Len(reads) : reads[i].t = "err"
    THEN reads[CHOOSE i \in 1..Len(reads) :
                  /\ reads[i].t = "err"
                  /\ \A j \in 1..(i - 1) : reads[j].t # "err"]
    ELSE result

(***************************************************************************)
(* Parameter Reader (agents/tools/common).                                 *)
(***************************************************************************)
readStringParam(p, key, required, trim, allowEmpty) ==
    LET raw == p[key] IN
    IF raw.t # "str" THEN (IF required THEN Err(key) ELSE Absent)
    ELSE LET value == IF trim THEN Trim(raw.s) ELSE raw.s IN
         IF value = <<>> /\ ~allowEmpty
         THEN (IF required THEN Err(key) ELSE Absent)
         ELSE Str(value)

readStringOrNumberParam(p, key, required) ==
    LET raw == p[key] IN
    IF raw.t = "num" THEN raw
    ELSE IF raw.t = "str" /\ Trim(raw.s) # <<>> THEN raw
    ELSE IF required THEN Err(key) ELSE Absent

readNumberParam(p, key, required, integer) ==
    LET raw == p[key]
        value == IF raw.t = "num" THEN raw
                 ELSE IF /\ raw.t = "str"
                         /\ Trim(raw.s) # <<>>
                         /\ \A i \in 1..Len(Trim(raw.s)) : IsDigit(Trim(raw.s)[i])
                      THEN Num(2 * ParseNat(Trim(raw.s)))
                 ELSE Absent
    IN  IF value = Absent THEN (IF required THEN Err(key) ELSE Absent)
        ELSE IF integer /\ value.h % 2 # 0 THEN Err(key)
        ELSE value

readStringArrayParam(p, key) ==
    LET raw == p[key] IN
    IF raw.t # "arr" THEN Absent
    ELSE IF \E i \in 1..Len(raw.a) : raw.a[i].t # "str" THEN Err(key)
    ELSE raw

\* typeof params.key === "boolean" ? params.key : undefined
readBoolean(p, key) == IF p[key].t = "bool" THEN p[key] ELSE Absent

(***************************************************************************)
(* Capability Gate: accounts and their per-action enablement settings.     *)
(***************************************************************************)
ActionKeys ==
    {"reactions", "deleteMessage", "editMessage", "sticker", "sendPoll", "createForumTopic"}

\* Enablement settings an account may carry, as a map from the keys that are
\* set to their value: nothing set, one key set either way, or every key set
\* the same way.
ActionSettings ==
    { [k \in ks |-> v] :
          ks \in {{}} \cup {{k} : k \in ActionKeys} \cup {ActionKeys}, v \in BOOLEAN }

AccountStates ==
    { [enabled |-> FALSE, tokenSource |-> "config", inlineButtons |-> TRUE],
      [enabled |-> TRUE, tokenSource |-> "none", inlineButtons |-> TRUE],
      [enabled |-> TRUE, tokenSource |-> "env", inlineButtons |-> TRUE],
      [enabled |-> TRUE, tokenSource |-> "config", inlineButtons |-> FALSE] }

MkAccount(i, st, acts) ==
    [accountId |-> i, enabled |-> st.enabled, tokenSource |-> st.tokenSource,
     inlineButtons |-> st.inlineButtons, actions |-> acts]

\* The accounts a configuration is made of: every setting on an enabled
\* account with a token from the environment; on the other accounts (disabled,
\* without a token, or without inline buttons) no setting, or, where the
\* account is one the listing must not count, every key enabled.
AccountChoices ==
    { ch \in AccountStates \X ActionSettings :
          \/ ch[1].enabled /\ ch[1].tokenSource = "env"
          \/ DOMAIN ch[2] = {}
          \/ /\ ~(ch[1].enabled /\ ch[1].tokenSource # "none")
             /\ DOMAIN ch[2] = ActionKeys
             /\ \A k \in ActionKeys : ch[2][k] }

AccountLists(n) ==
    { [i \in 1..n |-> MkAccount(i, c[i][1], c[i][2])] : c \in [1..n -> AccountChoices] }

Configs ==
    { [accounts |-> a] : a \in {<<>>} \cup UNION {AccountLists(n) : n \in 1..MaxAccounts} }

NoConfig == [accounts |-> <<>>]

listEnabledTelegramAccounts(c) ==
    LET IsEnabled(a) == a.enabled IN SelectSeq(c.accounts, IsEnabled)

listTokenSourcedAccounts(accounts) ==
    LET HasToken(a) == a.tokenSource # "none" IN SelectSeq(accounts, HasToken)

\* The gate of one account: its own setting for the key, else the default.
createTelegramActionGate(c, id, key, defaultValue) ==
    LET account == c.accounts[CHOOSE i \in 1..Len(c.accounts) : c.accounts[i].accountId = id]
    IN  IF key \in DOMAIN account.actions THEN account.actions[key] ELSE defaultValue

\* The union gate: some account's gate answers true.
createUnionActionGate(accounts, c, key, defaultValue) ==
    \E i \in 1..Len(accounts) :
        createTelegramActionGate(c, accounts[i].accountId, key, defaultValue)

isTelegramInlineButtonsEnabled(c, id) ==
    c.accounts[CHOOSE i \in 1..Len(c.accounts) : c.accounts[i].accountId = id].inlineButtons

\* actions.add(...) when the condition holds (insertion order of the Set).
AddIf(cond, names) == IF cond THEN names ELSE <<>>

\* listActions with its seed, the key that gates react, the default of the
\* sticker key and the early return left open.
listActionsVariant(c, seed, reactKey, stickerDefault, returnsEarly) ==
    LET accounts == listTokenSourcedAccounts(listEnabledTelegramAccounts(c))
        gate(key, defaultValue) == createUnionActionGate(accounts, c, key, defaultValue)
    IN  IF returnsEarly /\ Len(accounts) = 0 THEN <<>>
        ELSE seed
                 \o AddIf(gate(reactKey, TRUE), <<"react">>)
                 \o AddIf(gate("deleteMessage", TRUE), <<"delete">>)
                 \o AddIf(gate("editMessage", TRUE), <<"edit">>)
                 \o AddIf(gate("sticker", stickerDefault), <<"sticker", "sticker-search">>)
                 \o AddIf(gate("sendPoll", TRUE), <<"poll">>)
                 \o AddIf(gate("createForumTopic", TRUE), <<"topic-create">>)

\* A listing that starts from the empty set.
listActionsUnseeded(c) == listActionsVariant(c, <<>>, "reactions", FALSE, TRUE)

\* A listing that gates react by the deleteMessage key.
listActionsReactByDelete(c) == listActionsVariant(c, <<"send">>, "deleteMessage", FALSE, TRUE)

\* A listing that evaluates the gates although no account is left.
listActionsNoEarlyReturn(c) == listActionsVariant(c, <<"send">>, "reactions", FALSE, FALSE)

\* A listing whose sticker key defaults to enabled.
listActionsStickerOn(c) == listActionsVariant(c, <<"send">>, "reactions", TRUE, TRUE)

listActions(c) ==
    LET accounts == listTokenSourcedAccounts(listEnabledTelegramAccounts(c))
        gate(key, defaultValue) == createUnionActionGate(accounts, c, key, defaultValue)
        isEnabled(key, defaultValue) == gate(key, defaultValue)
    IN  IF Len(accounts) = 0 THEN <<>>
        ELSE <<"send">>
                 \o AddIf(isEnabled("reactions", TRUE), <<"react">>)
                 \o AddIf(isEnabled("deleteMessage", TRUE), <<"delete">>)
                 \o AddIf(isEnabled("editMessage", TRUE), <<"edit">>)
                 \o AddIf(isEnabled("sticker", FALSE), <<"sticker", "sticker-search">>)
                 \o AddIf(gate("sendPoll", TRUE), <<"poll">>)
                 \o AddIf(gate("createForumTopic", TRUE), <<"topic-create">>)

supportsButtons(c) ==
    LET accounts == listTokenSourcedAccounts(listEnabledTelegramAccounts(c))
    IN  IF Len(accounts) = 0 THEN FALSE
        ELSE \E i \in 1..Len(accounts) :
                 isTelegramInlineButtonsEnabled(c, accounts[i].accountId)

(***************************************************************************)
(* Action Dispatcher: the request each action kind builds.  A builder      *)
(* yields the request record, or the error the first failing read throws.  *)
(***************************************************************************)
IsErr(x) == "t" \in DOMAIN x

Null == [t |-> "null"]

\* accountId ?? undefined
OrUndefined(id) == IF id = Null THEN Absent ELSE id

\* Send parameters whose message is required whether or not media is given.
readTelegramSendParamsMessageRequired(p) ==
    LET to == readStringParam(p, "to", TRUE, TRUE, FALSE)
        mediaUrl == readStringParam(p, "media", FALSE, FALSE, FALSE)
        message == readStringParam(p, "message", TRUE, TRUE, TRUE)
        caption == readStringParam(p, "caption", FALSE, TRUE, TRUE)
        content == IF Truthy(message) THEN message
                   ELSE IF Truthy(caption) THEN caption
                   ELSE Str(<<>>)
        replyTo == readStringParam(p, "replyTo", FALSE, TRUE, FALSE)
        threadId == readStringParam(p, "threadId", FALSE, TRUE, FALSE)
        quoteText == readStringParam(p, "quoteText", FALSE, TRUE, FALSE)
    IN  Try(<<to, mediaUrl, message, caption, replyTo, threadId, quoteText>>,
            [to |-> to, content |-> content, mediaUrl |-> mediaUrl,
             replyToMessageId |-> replyTo, messageThreadId |-> threadId,
             buttons |-> p["buttons"], asVoice |-> readBoolean(p, "asVoice"),
             silent |-> readBoolean(p, "silent"), quoteText |-> quoteText])

readTelegramSendParams(p) ==
    LET to == readStringParam(p, "to", TRUE, TRUE, FALSE)
        mediaUrl == readStringParam(p, "media", FALSE, FALSE, FALSE)
        message == readStringParam(p, "message", ~Truthy(mediaUrl), TRUE, TRUE)
        caption == readStringParam(p, "caption", FALSE, TRUE, TRUE)
        content == IF Truthy(message) THEN message
                   ELSE IF Truthy(caption) THEN caption
                   ELSE Str(<<>>)
        replyTo == readStringParam(p, "replyTo", FALSE, TRUE, FALSE)
        threadId == readStringParam(p, "threadId", FALSE, TRUE, FALSE)
        quoteText == readStringParam(p, "quoteText", FALSE, TRUE, FALSE)
    IN  Try(<<to, mediaUrl, message, caption, replyTo, threadId, quoteText>>,
            [to |-> to, content |-> content, mediaUrl |-> mediaUrl,
             replyToMessageId |-> replyTo, messageThreadId |-> threadId,
             buttons |-> p["buttons"], asVoice |-> readBoolean(p, "asVoice"),
             silent |-> readBoolean(p, "silent"), quoteText |-> quoteText])

\* A chat id reader that consults channelId before chatId.
readTelegramChatIdParamChannelFirst(p) ==
    Coalesce(readStringOrNumberParam(p, "channelId", FALSE),
        Coalesce(readStringOrNumberParam(p, "chatId", FALSE),
            readStringParam(p, "to", TRUE, TRUE, FALSE)))

readTelegramChatIdParam(p) ==
    Coalesce(readStringOrNumberParam(p, "chatId", FALSE),
        Coalesce(readStringOrNumberParam(p, "channelId", FALSE),
            readStringParam(p, "to", TRUE, TRUE, FALSE)))

readTelegramMessageIdParam(p) ==
    LET messageId == readNumberParam(p, "messageId", TRUE, TRUE)
    IN  IF messageId.t # "num" /\ messageId.t # "err" THEN Err("messageId") ELSE messageId

SendRequest(p, id) ==
    LET sendParams == readTelegramSendParams(p)
    IN  IF IsErr(sendParams) THEN sendParams
        ELSE [action |-> "sendMessage", to |-> sendParams.to,
              content |-> sendParams.content, mediaUrl |-> sendParams.mediaUrl,
              replyToMessageId |-> sendParams.replyToMessageId,
              messageThreadId |-> sendParams.messageThreadId,
              buttons |-> sendParams.buttons, asVoice |-> sendParams.asVoice,
              silent |-> sendParams.silent, quoteText |-> sendParams.quoteText,
              accountId |-> OrUndefined(id)]

ReactRequest(p, id) ==
    LET messageId == readStringOrNumberParam(p, "messageId", TRUE)
        emoji == readStringParam(p, "emoji", FALSE, TRUE, TRUE)
        remove == readBoolean(p, "remove")
        chatId == readTelegramChatIdParam(p)
    IN  Try(<<messageId, emoji, chatId>>,
            [action |-> "react", chatId |-> chatId, messageId |-> messageId,
             emoji |-> emoji, remove |-> remove, accountId |-> OrUndefined(id)])

DeleteRequest(p, id) ==
    LET chatId == readTelegramChatIdParam(p)
        messageId == readTelegramMessageIdParam(p)
    IN  Try(<<chatId, messageId>>,
            [action |-> "deleteMessage", chatId |-> chatId, messageId |-> messageId,
             accountId |-> OrUndefined(id)])

EditRequest(p, id) ==
    LET chatId == readTelegramChatIdParam(p)
        messageId == readTelegramMessageIdParam(p)
        message == readStringParam(p, "message", TRUE, TRUE, FALSE)
    IN  Try(<<chatId, messageId, message>>,
            [action |-> "editMessage", chatId |-> chatId, messageId |-> messageId,
             content |-> message, buttons |-> p["buttons"],
             accountId |-> OrUndefined(id)])

\* A sticker request that prefers fileId to the stickerId array.
StickerRequestFileIdFirst(p, id) ==
    LET to == Coalesce(readStringParam(p, "to", FALSE, TRUE, FALSE),
                       readStringParam(p, "target", TRUE, TRUE, FALSE))
        stickerIds == readStringArrayParam(p, "stickerId")
        direct == readStringParam(p, "fileId", FALSE, TRUE, FALSE)
        fileId == IF stickerIds.t = "err" THEN stickerIds
                  ELSE IF direct # Absent THEN direct
                  ELSE IF stickerIds.t = "arr" /\ Len(stickerIds.a) > 0 THEN stickerIds.a[1]
                  ELSE Err("fileId")
        replyToMessageId == readNumberParam(p, "replyTo", FALSE, TRUE)
        messageThreadId == readNumberParam(p, "threadId", FALSE, TRUE)
    IN  Try(<<to, stickerIds, fileId, replyToMessageId, messageThreadId>>,
            [action |-> "sendSticker", to |-> to, fileId |-> fileId,
             replyToMessageId |-> replyToMessageId,
             messageThreadId |-> messageThreadId, accountId |-> OrUndefined(id)])

StickerRequest(p, id) ==
    LET to == Coalesce(readStringParam(p, "to", FALSE, TRUE, FALSE),
                       readStringParam(p, "target", TRUE, TRUE, FALSE))
        stickerIds == readStringArrayParam(p, "stickerId")
        fileId == IF stickerIds.t = "err" THEN stickerIds
                  ELSE IF stickerIds.t = "arr" /\ Len(stickerIds.a) > 0 THEN stickerIds.a[1]
                  ELSE readStringParam(p, "fileId", TRUE, TRUE, FALSE)
        replyToMessageId == readNumberParam(p, "replyTo", FALSE, TRUE)
        messageThreadId == readNumberParam(p, "threadId", FALSE, TRUE)
    IN  Try(<<to, stickerIds, fileId, replyToMessageId, messageThreadId>>,
            [action |-> "sendSticker", to |-> to, fileId |-> fileId,
             replyToMessageId |-> replyToMessageId,
             messageThreadId |-> messageThreadId, accountId |-> OrUndefined(id)])

StickerSearchRequest(p, id) ==
    LET query == readStringParam(p, "query", TRUE, TRUE, FALSE)
        limit == readNumberParam(p, "limit", FALSE, TRUE)
    IN  Try(<<query, limit>>,
            [action |-> "searchSticker", query |-> query, limit |-> limit,
             accountId |-> OrUndefined(id)])

TopicCreateRequest(p, id) ==
    LET chatId == readTelegramChatIdParam(p)
        name == readStringParam(p, "name", TRUE, TRUE, FALSE)
        iconColor == readNumberParam(p, "iconColor", FALSE, TRUE)
        iconCustomEmojiId == readStringParam(p, "iconCustomEmojiId", FALSE, TRUE, FALSE)
    IN  Try(<<chatId, name, iconColor, iconCustomEmojiId>>,
            [action |-> "createForumTopic", chatId |-> chatId, name |-> name,
             iconColor |-> iconColor, iconCustomEmojiId |-> iconCustomEmojiId,
             accountId |-> OrUndefined(id)])

\* options?.length ?? 10
OptionCount(options) ==
    IF options.t = "arr" THEN Len(options.a)
    ELSE IF options.t = "str" THEN Len(options.s)
    ELSE DefaultMaxSelections

PollTarget(p) ==
    Coalesce(readStringOrNumberParam(p, "chatId", FALSE),
        Coalesce(readStringOrNumberParam(p, "channelId", FALSE),
            Coalesce(readStringParam(p, "target", FALSE, TRUE, FALSE),
                readStringParam(p, "to", TRUE, TRUE, FALSE))))

\* A maximum that ignores how many options there are.
PollMaxSelectionsFixed(pollMulti, options) ==
    IF pollMulti = Bool(TRUE) THEN Num(2 * DefaultMaxSelections) ELSE Absent

PollMaxSelections(pollMulti, options) ==
    IF pollMulti = Bool(TRUE) THEN Num(2 * OptionCount(options)) ELSE Absent

PollRequest(p, id) ==
    LET to == PollTarget(p)
        question == Coalesce(readStringParam(p, "pollQuestion", FALSE, TRUE, FALSE),
                             readStringParam(p, "question", TRUE, TRUE, FALSE))
        options == Coalesce(readStringArrayParam(p, "pollOption"), p["options"])
        pollMulti == readBoolean(p, "pollMulti")
        durationSeconds == readNumberParam(p, "pollDurationSeconds", FALSE, TRUE)
        silent == readBoolean(p, "silent")
        threadId == readStringOrNumberParam(p, "threadId", FALSE)
    IN  Try(<<to, question, options, durationSeconds, threadId>>,
            [action |-> "sendPoll", to |-> String(to), question |-> question,
             options |-> options,
             maxSelections |-> PollMaxSelections(pollMulti, options),
             durationSeconds |-> durationSeconds,
             isAnonymous |-> readBoolean(p, "pollAnonymous"), silent |-> silent,
             messageThreadId |-> IF threadId # Absent THEN String(threadId) ELSE Absent,
             accountId |-> OrUndefined(id)])

Unsupported(a) ==
    [t |-> "unsupported",
     message |-> <<"Action ", a, " is not supported for provider ", providerId, ".">>]

\* A dispatcher whose last branch is a default that sends.
BuildRequestDefaultingToSend(a, p, id) ==
    IF a = "react" THEN ReactRequest(p, id)
    ELSE IF a = "delete" THEN DeleteRequest(p, id)
    ELSE IF a = "edit" THEN EditRequest(p, id)
    ELSE IF a = "sticker" THEN StickerRequest(p, id)
    ELSE IF a = "sticker-search" THEN StickerSearchRequest(p, id)
    ELSE IF a = "topic-create" THEN TopicCreateRequest(p, id)
    ELSE IF a = "poll" THEN PollRequest(p, id)
    ELSE SendRequest(p, id)

BuildRequest(a, p, id) ==
    IF a = "send" THEN SendRequest(p, id)
    ELSE IF a = "react" THEN ReactRequest(p, id)
    ELSE IF a = "delete" THEN DeleteRequest(p, id)
    ELSE IF a = "edit" THEN EditRequest(p, id)
    ELSE IF a = "sticker" THEN StickerRequest(p, id)
    ELSE IF a = "sticker-search" THEN StickerSearchRequest(p, id)
    ELSE IF a = "topic-create" THEN TopicCreateRequest(p, id)
    ELSE IF a = "poll" THEN PollRequest(p, id)
    ELSE Unsupported(a)

(***************************************************************************)
(* The parameter bags the invocations are tried on.                        *)
(***************************************************************************)
AllKeys ==
    {"to", "media", "message", "caption", "replyTo", "threadId", "buttons", "asVoice",
     "silent", "quoteText", "chatId", "channelId", "target", "messageId", "emoji",
     "remove", "stickerId", "fileId", "query", "limit", "name", "iconColor",
     "iconCustomEmojiId", "pollQuestion", "question", "pollOption", "options",
     "pollMulti", "pollDurationSeconds", "pollAnonymous"}

\* The bag holding the fields of record f and nothing else.
Bag(f) == [k \in AllKeys |-> IF k \in DOMAIN f THEN f[k] ELSE Absent]

Bags(S) == {Bag(f) : f \in S}

Letters == <<"a", "b", "c", "d">>

\* The arrays of 0..MaxOptions strings.
StringArrays ==
    { Arr([i \in 1..n |-> Str(<<Letters[((i - 1) % Len(Letters)) + 1]>>)]) : n \in 0..MaxOptions }

ChatIds == {Absent, Str(<<"1">>), Num(14)}

ChannelIds == {Absent, Str(<<"2">>)}

Targets == {Absent, Str(<<"4">>)}

Tos == {Absent, Str(<<"3">>), Str(<<" ">>)}

MessageIds == {Absent, Num(10), Num(5), Str(<<"1", "2">>), Str(<<"m">>)}

SomeButtons == Arr(<<Arr(<<Str(<<"o", "k">>)>>)>>)

SendBags ==
    Bags([to : Tos, chatId : {Absent, Str(<<"1">>)}, channelId : ChannelIds, target : Targets,
          media : {Absent, Str(<<"u", "r", "l">>), Str(<<" ">>)},
          message : {Absent, Str(<<>>), Str(<<"h", "i">>), Str(<<" ", "h", "i", " ">>)},
          caption : {Absent, Str(<<>>), Str(<<"c", "a", "p">>)},
          silent : {Absent, Bool(TRUE), Str(<<"y">>)}])
      \cup
    Bags([to : {Str(<<"3">>)}, message : {Str(<<"h", "i">>)},
          replyTo : {Absent, Str(<<"9">>)}, threadId : {Absent, Str(<<"7">>)},
          buttons : {Absent, SomeButtons}, asVoice : {Absent, Bool(FALSE)},
          quoteText : {Absent, Str(<<"q">>)}])

ReactBags ==
    Bags([chatId : ChatIds, channelId : ChannelIds, target : Targets, to : Tos,
          messageId : {Absent, Num(10), Str(<<"m">>)},
          emoji : {Absent, Str(<<>>), Str(<<"x">>)},
          remove : {Absent, Bool(TRUE), Str(<<"y">>)}])

DeleteBags ==
    Bags([chatId : ChatIds, channelId : ChannelIds, target : Targets, to : Tos,
          messageId : MessageIds])

EditBags ==
    Bags([chatId : ChatIds, channelId : ChannelIds, target : Targets, to : Tos,
          messageId : {Absent, Num(10), Num(5)},
          message : {Absent, Str(<<>>), Str(<<"n", "e", "w">>)},
          buttons : {Absent, SomeButtons}])

StickerBags ==
    Bags([chatId : {Absent, Str(<<"1">>)}, channelId : ChannelIds, target : Targets, to : Tos,
          stickerId : {Absent} \cup StringArrays,
          fileId : {Absent, Str(<<"f", "1">>)},
          replyTo : {Absent, Num(8), Num(5)}])

StickerSearchBags ==
    Bags([query : {Absent, Str(<<>>), Str(<<"c", "a", "t">>), Str(<<" ", "c", "a", "t">>)},
          limit : {Absent, Num(6), Num(3), Str(<<"5">>), Str(<<"x">>)}])

TopicCreateBags ==
    Bags([chatId : ChatIds, channelId : ChannelIds, target : Targets, to : Tos,
          name : {Absent, Str(<<"t">>)},
          iconColor : {Absent, Num(4), Num(3)},
          iconCustomEmojiId : {Absent, Str(<<"e">>)}])

PollBags ==
    Bags([chatId : ChatIds, channelId : ChannelIds, target : Targets, to : {Absent, Str(<<"3">>)},
          pollQuestion : {Absent, Str(<<"p", "q">>)},
          question : {Absent, Str(<<"q">>)},
          pollOption : {Absent} \cup StringArrays,
          options : {Absent} \cup StringArrays,
          pollMulti : {Absent, Bool(TRUE), Bool(FALSE), Str(<<"t", "r", "u", "e">>)}])
      \cup
    Bags([to : {Str(<<"3">>)}, question : {Str(<<"q">>)},
          pollDurationSeconds : {Absent, Num(120), Num(3)},
          pollAnonymous : {Absent, Bool(TRUE)}, silent : {Absent, Bool(TRUE)},
          threadId : {Absent, Num(12), Str(<<"t">>)}])

UnknownBags ==
    Bags([to : {Absent, Str(<<"3">>)}, chatId : {Absent, Str(<<"1">>)},
          message : {Absent, Str(<<"h", "i">>)}])

KnownActions ==
    {"send", "react", "delete", "edit", "sticker", "sticker-search", "topic-create", "poll"}

UnknownActions == {"unknown", "pin", ""}

ParamBags(a) ==
    IF a = "send" THEN SendBags
    ELSE IF a = "react" THEN ReactBags
    ELSE IF a = "delete" THEN DeleteBags
    ELSE IF a = "edit" THEN EditBags
    ELSE IF a = "sticker" THEN StickerBags
    ELSE IF a = "sticker-search" THEN StickerSearchBags
    ELSE IF a = "topic-create" THEN TopicCreateBags
    ELSE IF a = "poll" THEN PollBags
    ELSE UnknownBags

AccountIdArgs == {Null, Str(<<"w", "o", "r", "k">>)}

(***************************************************************************)
(* The invocations.  The adapter carries nothing from one invocation to    *)
(* the next, so a behaviour is one invocation, started from the idle       *)
(* state.                                                                  *)
(***************************************************************************)
None == [kind |-> "none"]

NoBag == Bag([to |-> Absent])

\* The error an invocation ends with when a read or the dispatch throws.
Thrown(e) ==
    IF e.t = "unsupported" THEN [kind |-> "error", class |-> "unsupported", message |-> e.message]
    ELSE [kind |-> "error", class |-> "validation", field |-> e.field]

\* The call handleTelegramAction(request, cfg, { mediaLocalRoots }); the poll
\* branch passes no third argument.
HandlerCall(request, c) ==
    [request |-> request, cfg |-> c, withMediaLocalRoots |-> request.action # "sendPoll"]

\* What the provider handler may answer to a call.
HandlerOutcomes(call) ==
    { [kind |-> "result", ok |-> TRUE, of |-> call.request.action],
      [kind |-> "error", class |-> "provider", of |-> call.request.action] }

\* handleAction up to its await: the reads, then the one call.
handleActionCalls(a, p, id, c) ==
    LET built == BuildRequest(a, p, id)
    IN  IF IsErr(built) THEN <<>> ELSE <<HandlerCall(built, c)>>

\* A dispatcher that calls the handler again after a handler failure.
handleActionReturnRetrying(calls, answer) ==
    [calls |-> IF answer.kind = "error" THEN calls \o calls ELSE calls, outcome |-> answer]

\* handleAction after its await: return await handleTelegramAction(...).
handleActionReturn(calls, answer) == [calls |-> calls, outcome |-> answer]

Init ==
    /\ op = "none"
    /\ cfg = NoConfig
    /\ action = ""
    /\ params = NoBag
    /\ accountId = Null
    /\ pc = "idle"
    /\ forwarded = <<>>
    /\ handlerOutcome = None
    /\ outcome = None

ListActions ==
    /\ pc = "idle"
    /\ \E c \in Configs :
          /\ cfg' = c
          /\ outcome' = [kind |-> "actions", actions |-> listActions(c)]
    /\ op' = "listActions"
    /\ pc' = "done"
    /\ action' = ""
    /\ params' = NoBag
    /\ accountId' = Null
    /\ forwarded' = <<>>
    /\ handlerOutcome' = None

SupportsButtons ==
    /\ pc = "idle"
    /\ \E c \in Configs :
          /\ cfg' = c
          /\ outcome' = [kind |-> "buttons", supported |-> supportsButtons(c)]
    /\ op' = "supportsButtons"
    /\ pc' = "done"
    /\ action' = ""
    /\ params' = NoBag
    /\ accountId' = Null
    /\ forwarded' = <<>>
    /\ handlerOutcome' = None

HandleAction ==
    /\ pc = "idle"
    /\ \E a \in KnownActions \cup UnknownActions :
          \E p \in ParamBags(a) :
             \E id \in AccountIdArgs :
                /\ action' = a
                /\ params' = p
                /\ accountId' = id
                /\ forwarded' = handleActionCalls(a, p, id, NoConfig)
                /\ IF IsErr(BuildRequest(a, p, id))
                   THEN /\ pc' = "done"
                        /\ outcome' = Thrown(BuildRequest(a, p, id))
                   ELSE /\ pc' = "awaiting"
                        /\ outcome' = None
    /\ op' = "handleAction"
    /\ cfg' = NoConfig
    /\ handlerOutcome' = None

HandlerReturns ==
    /\ pc = "awaiting"
    /\ \E answer \in HandlerOutcomes(forwarded[Len(forwarded)]) :
          LET after == handleActionReturn(forwarded, answer)
          IN  /\ handlerOutcome' = answer
              /\ forwarded' = after.calls
              /\ outcome' = after.outcome
    /\ pc' = "done"
    /\ UNCHANGED <<op, cfg, action, params, accountId>>

Next == ListActions \/ SupportsButtons \/ HandleAction \/ HandlerReturns

Spec == Init /\ [][Next]_vars

(***************************************************************************)
(* Helpers of the properties.                                              *)
(***************************************************************************)
Range(f) == {f[i] : i \in DOMAIN f}

Handled == op = "handleAction" /\ pc # "idle"

Listed == op = "listActions" /\ pc = "done"

\* The accounts the gate is computed over: enabled and with a sourced token.
UsableAccounts(c) ==
    {i \in 1..Len(c.accounts) : c.accounts[i].enabled /\ c.accounts[i].tokenSource # "none"}

\* A raw value a reader of identifiers accepts: a number or a non-blank string.
Present(v) == v.t = "num" \/ (v.t = "str" /\ Trim(v.s) # <<>>)

\* An identifier as text, whitespace trimmed, so that "7" and 7 compare equal.
Canon(v) == IF v.t = "str" THEN Str(Trim(v.s)) ELSE String(v)

\* The first present value of the bag among the keys, in their order.
FirstPresent(p, keys) ==
    IF \E i \in 1..Len(keys) : Present(p[keys[i]])
    THEN p[keys[CHOOSE i \in 1..Len(keys) :
                   /\ Present(p[keys[i]])
                   /\ \A j \in 1..(i - 1) : ~Present(p[keys[j]])]]
    ELSE Absent

RequestTarget(r) == IF "to" \in DOMAIN r THEN r.to ELSE r.chatId

DestinationActions == KnownActions \ {"sticker-search"}

TheRequest == forwarded[1].request

(***************************************************************************)
(* Properties.                                                             *)
(***************************************************************************)

\* C1: an invocation of handleAction calls the provider handler at most once;
\* exactly once when the action is recognised and every read passes, and then
\* its outcome is the handler's answer unchanged, with no second call after a
\* handler failure; never when it ends with a validation error or an
\* unsupported-action error.
C1_OneHandlerCall ==
    /\ Len(forwarded) <= 1
    /\ Handled =>
          /\ IsErr(BuildRequest(action, params, accountId)) =>
                /\ pc = "done"
                /\ forwarded = <<>>
                /\ outcome.kind = "error"
                /\ outcome.class \in {"validation", "unsupported"}
          /\ ~IsErr(BuildRequest(action, params, accountId)) =>
                /\ Len(forwarded) = 1
                /\ pc = "done" =>
                      /\ outcome = handlerOutcome
                      /\ handlerOutcome \in HandlerOutcomes(forwarded[1])
          /\ (pc = "done" /\ outcome.kind = "error" /\ outcome.class # "provider") =>
                forwarded = <<>>

\* A handler failure reached the caller after a single call.
C1_Witness ==
    /\ Handled
    /\ pc = "done"
    /\ Len(forwarded) = 1
    /\ outcome.kind = "error"
    /\ outcome.class = "provider"

\* C5: an action name outside the closed set fails, whatever the bag, with an
\* error whose message holds the action name and the provider id, and the
\* provider handler is not called.
C5_UnsupportedAction ==
    (Handled /\ action \notin KnownActions) =>
        /\ pc = "done"
        /\ forwarded = <<>>
        /\ outcome.kind = "error"
        /\ outcome.class = "unsupported"
        /\ action \in Range(outcome.message)
        /\ providerId \in Range(outcome.message)

\* An unknown action was refused on a bag a send would have accepted.
C5_Witness ==
    /\ Handled
    /\ action = "unknown"
    /\ Present(params["to"])
    /\ Present(params["message"])
    /\ outcome.kind = "error"
    /\ outcome.class = "unsupported"

\* C2 as stated: for every action kind that needs a destination, the target
\* of the forwarded request is the first present of chatId, channelId,
\* target, to, in that order.
C2_OnePrecedenceForAll ==
    (Handled /\ action \in DestinationActions /\ forwarded # <<>>) =>
        Canon(RequestTarget(TheRequest))
            = Canon(FirstPresent(params, <<"chatId", "channelId", "target", "to">>))

\* The order in which each action kind consults the destination fields.
TargetOrder(a) ==
    IF a = "poll" THEN <<"chatId", "channelId", "target", "to">>
    ELSE IF a = "send" THEN <<"to">>
    ELSE IF a = "sticker" THEN <<"to", "target">>
    ELSE <<"chatId", "channelId", "to">>

\* C2 (amended): the target of the forwarded request is the first present
\* field in the action kind's own order: chatId, channelId, target, to for
\* poll; chatId, channelId, to for react, delete, edit and topic-create; to
\* alone for send; to, then target for sticker.
C2_TargetPrecedencePerKind ==
    (Handled /\ action \in DestinationActions /\ forwarded # <<>>) =>
        Canon(RequestTarget(TheRequest)) = Canon(FirstPresent(params, TargetOrder(action)))

\* A react on a bag holding chatId "1", channelId "2" and to "3" went to "1".
C2_Witness ==
    /\ Handled
    /\ action = "react"
    /\ forwarded # <<>>
    /\ params["chatId"] = Str(<<"1">>)
    /\ params["channelId"] = Str(<<"2">>)
    /\ params["to"] = Str(<<"3">>)
    /\ TheRequest.chatId = Str(<<"1">>)

Probed == op = "supportsButtons" /\ pc = "done"

\* The configuration key that gates an action kind.
KeyOf(kind) ==
    IF kind = "react" THEN "reactions"
    ELSE IF kind = "delete" THEN "deleteMessage"
    ELSE IF kind = "edit" THEN "editMessage"
    ELSE IF kind = "poll" THEN "sendPoll"
    ELSE IF kind = "topic-create" THEN "createForumTopic"
    ELSE "sticker"

GatedKinds == KnownActions \ {"send"}

\* Account i of the configuration enables the key: by its setting, or, the
\* key left unset, by the key's default (disabled for sticker only).
Enables(c, i, key) ==
    IF key \in DOMAIN c.accounts[i].actions THEN c.accounts[i].actions[key]
    ELSE key # "sticker"

NothingSet(c) == \A i \in 1..Len(c.accounts) : DOMAIN c.accounts[i].actions = {}

C6_NoAccounts ==
    /\ (Listed /\ UsableAccounts(cfg) = {}) =>
          outcome = [kind |-> "actions", actions |-> <<>>]
    /\ (Probed /\ UsableAccounts(cfg) = {}) =>
          outcome = [kind |-> "buttons", supported |-> FALSE]

\* A disabled account that enables every key and has inline buttons: nothing
\* is listed.
C6_Witness ==
    /\ Listed
    /\ Len(cfg.accounts) = 1
    /\ ~cfg.accounts[1].enabled
    /\ cfg.accounts[1].inlineButtons
    /\ DOMAIN cfg.accounts[1].actions = ActionKeys
    /\ outcome.actions = <<>>

TextOf(v) == IF v.t = "str" THEN Trim(v.s) ELSE <<>>

SendHasTarget == TextOf(params["to"]) # <<>>

SendHasMedia == params["media"].t = "str" /\ params["media"].s # <<>>

\* C7: a send with a target and media but neither message nor caption is
\* forwarded with empty content; a send with a target but no message, caption
\* or media fails validation; the content of every forwarded send is the
\* message (as read, trimmed) when that is non-empty, else the caption when
\* that is non-empty, else the empty string.
C7_SendValidity ==
    (Handled /\ action = "send") =>
        /\ ( /\ SendHasTarget
             /\ SendHasMedia
             /\ params["message"] = Absent
             /\ params["caption"] = Absent ) =>
               /\ Len(forwarded) = 1
               /\ TheRequest.content = Str(<<>>)
        /\ ( /\ SendHasTarget
             /\ params["media"] = Absent
             /\ params["message"] = Absent
             /\ params["caption"] = Absent ) =>
               /\ pc = "done"
               /\ forwarded = <<>>
               /\ outcome = [kind |-> "error", class |-> "validation", field |-> "message"]
        /\ forwarded # <<>> =>
               TheRequest.content =
                   Str(IF TextOf(params["message"]) # <<>> THEN TextOf(params["message"])
                       ELSE TextOf(params["caption"]))

\* A send of media alone was forwarded with empty content.
C7_Witness ==
    /\ Handled
    /\ action = "send"
    /\ SendHasMedia
    /\ params["message"] = Absent
    /\ params["caption"] = Absent
    /\ Len(forwarded) = 1
    /\ TheRequest.content = Str(<<>>)
    /\ TheRequest.mediaUrl = params["media"]

StickerHasTarget == TextOf(params["to"]) # <<>> \/ TextOf(params["target"]) # <<>>

\* C8: a forwarded sticker request carries the first element of the stickerId
\* array when the array has one (also when fileId is given too), else the
\* fileId value; with a valid target and neither of them the call fails
\* validation.
C8_StickerFallback ==
    (Handled /\ action = "sticker") =>
        /\ forwarded # <<>> =>
              TheRequest.fileId =
                  IF params["stickerId"].t = "arr" /\ Len(params["stickerId"].a) > 0
                  THEN params["stickerId"].a[1]
                  ELSE Str(TextOf(params["fileId"]))
        /\ (StickerHasTarget /\ params["stickerId"] = Absent /\ params["fileId"] = Absent) =>
              /\ pc = "done"
              /\ forwarded = <<>>
              /\ outcome = [kind |-> "error", class |-> "validation", field |-> "fileId"]

\* A sticker with a two-element stickerId array and a fileId sent the first
\* element of the array.
C8_Witness ==
    /\ Handled
    /\ action = "sticker"
    /\ Len(forwarded) = 1
    /\ params["stickerId"].t = "arr"
    /\ Len(params["stickerId"].a) = 2
    /\ params["fileId"] # Absent
    /\ TheRequest.fileId = params["stickerId"].a[1]
    /\ TheRequest.fileId # params["fileId"]

\* The options a poll is sent with: pollOption, else options.
SuppliedOptions == IF params["pollOption"] # Absent THEN params["pollOption"] ELSE params["options"]

\* C9: a forwarded poll request with pollMulti the boolean true carries a
\* maximum-selection count equal to the number of options supplied (from
\* pollOption, else from options), or 10 when no options array is supplied;
\* with pollMulti false, absent or not a boolean it carries none.
C9_PollMaxSelections ==
    (Handled /\ action = "poll" /\ forwarded # <<>>) =>
        TheRequest.maxSelections =
            IF params["pollMulti"] = Bool(TRUE)
            THEN (IF SuppliedOptions.t = "arr" THEN Num(2 * Len(SuppliedOptions.a))
                  ELSE Num(2 * 10))
            ELSE Absent

\* A multi-select poll with three options allows three selections.
C9_Witness ==
    /\ Handled
    /\ action = "poll"
    /\ Len(forwarded) = 1
    /\ params["pollMulti"] = Bool(TRUE)
    /\ params["pollOption"] = Absent
    /\ params["options"].t = "arr"
    /\ Len(params["options"].a) = 3
    /\ TheRequest.maxSelections = Num(6)

====
